---------------------------- MODULE Spec2Model ----------------------------
(***************************************************************************)
(* Friend-engagement reminder engine of personal-crm.                      *)
(*                                                                         *)
(* The store (people, friend_events, friend_situations, reminder_log), the *)
(* daily cron tick checkAndSendFriendReminders with its three pipelines    *)
(* (events, situations, last contact), the store request that creates the  *)
(* entities, and the delivery collaborator (SendGrid).                     *)
(*                                                                         *)
(* Time: `day' is the calendar day; a timestamp is counted in hours        *)
(* (day * HoursPerDay + hour of day).  Every day has HoursPerDay hours     *)
(* (no daylight-saving shift).                                             *)
(* A nullable column is <<>> (NULL) or <<v>>.                              *)
(***************************************************************************)
EXTENDS Integers, Sequences, FiniteSets, Bags, TLC

VARIABLES
    day,                \* current calendar day (CURRENT_DATE)
    cronFired,          \* the 9am schedule already fired today
    people,             \* table people: id -> row
    friend_events,      \* table friend_events: sequence of rows, id = index
    friend_situations,  \* table friend_situations: sequence of rows, id = index
    reminder_log,       \* table reminder_log: bag of rows
    delivered,          \* bag of the messages the delivery collaborator accepted
    evProc,             \* per tick: checkEventReminders
    sitProc,            \* per tick: checkSituationReminders
    lcProc,             \* per tick: checkLastContactReminders
    probe,              \* evaluator inputs/outputs (specification SpecEval)
    daily_summaries,    \* table daily_summaries: date -> summary
    recProc             \* per recording: the recording-complete handler

vars == <<day, cronFired, people, friend_events, friend_situations,
          reminder_log, delivered, evProc, sitProc, lcProc, probe,
          daily_summaries, recProc>>

store == <<people, friend_events, friend_situations, reminder_log>>

summaries == <<daily_summaries, recProc>>

---------------------------------------------------------------------------
(* Bounds of the model *)

NumPersons == 2
NumEvents == 2
NumSituations == 2
MaxDay == 1
MaxTicks == 2
MaxProbeDay == 30
NumRecordings == 3

(* Program constants *)

HoursPerDay == 24
LookaheadDays == 14
PriorityDays == 14
NormalDays == 28
NeverSent == 999
AcuteDays == 14
AcuteInterval == 1
WeeklyInterval == 7
LowInterval == 14
LeadWeek == 7
LeadDay == 1
LeadDayOf == 0
CronHour == 9

Persons == 1..NumPersons
Ticks == 1..MaxTicks
Recordings == 1..NumRecordings

NULL == <<>>
Some(v) == <<v>>
IsNull(c) == c = <<>>
Val(c) == c[1]

Severities == {"high", "medium", "low"}
SendOutcomes == {"accepted", "rejected", "disabled"}

---------------------------------------------------------------------------
(* Dates *)

\* A DATE column read as a timestamp: midnight of that day.
DateTs(d) == d * HoursPerDay

\* new Date(): the wall clock at hour h of the current day.
NowTs(d, h) == d * HoursPerDay + h

\* setHours(0, 0, 0, 0)
StartOfDay(ts) == ts - (ts % HoursPerDay)

\* Math.floor(a / b) for b > 0
Floor(a, b) == a \div b

\* getDaysUntil without today.setHours(0, 0, 0, 0)
getDaysUntilOfClock(date, now) ==
    Floor(StartOfDay(date) - now, HoursPerDay)

getDaysUntil(date, now) ==
    Floor(StartOfDay(date) - StartOfDay(now), HoursPerDay)

getDaysSince(date, now) ==
    Floor(StartOfDay(now) - StartOfDay(date), HoursPerDay)


---------------------------------------------------------------------------
(* Rows *)

\* migration 003: friend_events; the three flags DEFAULT FALSE
createFriendEvent(personId, eventDate) ==
    [person_id |-> personId,
     event_date |-> eventDate,
     reminder_sent_1week |-> FALSE,
     reminder_sent_1day |-> FALSE,
     reminder_sent_dayof |-> FALSE]

\* migration 003: friend_situations; status DEFAULT 'active'
createFriendSituation(personId, severity, startedAt) ==
    [person_id |-> personId,
     severity |-> severity,
     status |-> "active",
     started_at |-> startedAt,
     last_reminder_sent |-> NULL]

\* people: priority_level DEFAULT 'normal', last_contact_date NULL
createPerson(priority) ==
    [priority_level |-> priority, last_contact_date |-> NULL]

\* UPDATE people SET last_contact_date = $1 WHERE id = $2
updateLastContactDate(tbl, personId, contactDate) ==
    [tbl EXCEPT ![personId].last_contact_date = Some(contactDate)]

---------------------------------------------------------------------------
(* Orderings of a query result *)

\* Every arrangement of the rows S in a sequence
Arrangements(S) ==
    {f \in [1..Cardinality(S) -> S] :
        \A a, b \in 1..Cardinality(S) : a # b => f[a] # f[b]}

\* Text comparison of the values of the TEXT columns severity, priority_level
TextRank(s) ==
    CASE s = "high" -> 1
      [] s = "low" -> 2
      [] s = "medium" -> 3
      [] s = "normal" -> 4

\* ORDER BY fe.event_date ASC
EventOrder(a, b) == Val(a.row.event_date) <= Val(b.row.event_date)

\* ORDER BY fs.severity DESC, fs.started_at ASC
SituationOrder(a, b) ==
    \/ TextRank(a.row.severity) > TextRank(b.row.severity)
    \/ /\ a.row.severity = b.row.severity
       /\ a.row.started_at <= b.row.started_at

\* ORDER BY priority_level DESC, last_contact_date ASC NULLS FIRST
PersonOrder(a, b) ==
    \/ TextRank(a.row.priority_level) > TextRank(b.row.priority_level)
    \/ /\ a.row.priority_level = b.row.priority_level
       /\ \/ IsNull(a.row.last_contact_date)
          \/ /\ ~IsNull(b.row.last_contact_date)
             /\ Val(a.row.last_contact_date) <= Val(b.row.last_contact_date)

---------------------------------------------------------------------------
(* Store queries: the sets of possible results (rows in any order the       *)
(* ORDER BY allows)                                                         *)

\* WHERE event_date IS NOT NULL AND event_date >= CURRENT_DATE
\*   AND event_date <= CURRENT_DATE + INTERVAL 'days days'
InWindow(row, days, today) ==
    /\ ~IsNull(row.event_date)
    /\ Val(row.event_date) >= today
    /\ Val(row.event_date) <= today + days

getUpcomingEvents(tbl, days, today) ==
    LET S == {[id |-> i, row |-> tbl[i]] : i \in {j \in DOMAIN tbl : InWindow(tbl[j], days, today)}}
    IN {f \in Arrangements(S) :
           \A a, b \in DOMAIN f : a < b => EventOrder(f[a], f[b])}

\* the query without its WHERE clause
IsAnyStatus(row) == TRUE

\* WHERE fs.status = 'active'
IsActive(row) == row.status = "active"

getActiveSituations(tbl) ==
    LET S == {[id |-> i, row |-> tbl[i]] : i \in {j \in DOMAIN tbl : IsActive(tbl[j])}}
    IN {f \in Arrangements(S) :
           \A a, b \in DOMAIN f : a < b => SituationOrder(f[a], f[b])}

\* the comparison without the IS NULL alternative
ContactKnownBefore(row, n, today) ==
    /\ ~IsNull(row.last_contact_date)
    /\ Val(row.last_contact_date) < today - n

\* the comparison with <= in place of <
ContactAtOrBefore(row, n, today) ==
    \/ IsNull(row.last_contact_date)
    \/ Val(row.last_contact_date) <= today - n

\* last_contact_date IS NULL OR last_contact_date < CURRENT_DATE - INTERVAL 'n days'
ContactBefore(row, n, today) ==
    \/ IsNull(row.last_contact_date)
    \/ Val(row.last_contact_date) < today - n

NeedsContact(row, priorityDays, normalDays, today) ==
    \/ row.priority_level = "high" /\ ContactBefore(row, priorityDays, today)
    \/ row.priority_level = "normal" /\ ContactBefore(row, normalDays, today)

getPeopleNeedingContact(tbl, priorityDays, normalDays, today) ==
    LET S == {[id |-> i, row |-> tbl[i]] :
                 i \in {j \in DOMAIN tbl : NeedsContact(tbl[j], priorityDays, normalDays, today)}}
    IN {f \in Arrangements(S) :
           \A a, b \in DOMAIN f : a < b => PersonOrder(f[a], f[b])}

---------------------------------------------------------------------------
(* Store writes *)

\* a log that keeps the latest reminder only: the row replaces the table
logReminderLatest(log, reminderType, personId, relatedEventId, relatedSituationId, messageSent) ==
    SetToBag({[reminder_type |-> reminderType,
               person_id |-> personId,
               related_event_id |-> relatedEventId,
               related_situation_id |-> relatedSituationId,
               message_sent |-> messageSent]})

\* the row inserted without its references to the event and the situation
logReminderUnreferenced(log, reminderType, personId, relatedEventId, relatedSituationId, messageSent) ==
    log (+) SetToBag({[reminder_type |-> reminderType,
                       person_id |-> personId,
                       related_event_id |-> NULL,
                       related_situation_id |-> NULL,
                       message_sent |-> messageSent]})

\* INSERT INTO reminder_log
logReminder(log, reminderType, personId, relatedEventId, relatedSituationId, messageSent) ==
    log (+) SetToBag({[reminder_type |-> reminderType,
                       person_id |-> personId,
                       related_event_id |-> relatedEventId,
                       related_situation_id |-> relatedSituationId,
                       message_sent |-> messageSent]})

\* an update that rewrites the three flags instead of one column
markEventReminderOnly(tbl, eventId, reminderType) ==
    IF eventId \notin DOMAIN tbl THEN tbl
    ELSE [tbl EXCEPT ![eventId].reminder_sent_1week = (reminderType = "1week"),
                     ![eventId].reminder_sent_1day = (reminderType = "1day"),
                     ![eventId].reminder_sent_dayof = (reminderType = "dayof")]

\* the column chosen by a two-way test: '1day' falls through to dayof
markEventReminderTwoWay(tbl, eventId, reminderType) ==
    IF eventId \notin DOMAIN tbl THEN tbl
    ELSE CASE reminderType = "1week" -> [tbl EXCEPT ![eventId].reminder_sent_1week = TRUE]
           [] OTHER -> [tbl EXCEPT ![eventId].reminder_sent_dayof = TRUE]

\* the update without its WHERE clause: the column is set in every row
markEventReminderSentAll(tbl, eventId, reminderType) ==
    CASE reminderType = "1week" ->
            [j \in DOMAIN tbl |-> [tbl[j] EXCEPT !.reminder_sent_1week = TRUE]]
      [] reminderType = "1day" ->
            [j \in DOMAIN tbl |-> [tbl[j] EXCEPT !.reminder_sent_1day = TRUE]]
      [] OTHER ->
            [j \in DOMAIN tbl |-> [tbl[j] EXCEPT !.reminder_sent_dayof = TRUE]]

\* UPDATE friend_events SET <column> = TRUE WHERE id = $1
markEventReminderSent(tbl, eventId, reminderType) ==
    IF eventId \notin DOMAIN tbl THEN tbl
    ELSE CASE reminderType = "1week" -> [tbl EXCEPT ![eventId].reminder_sent_1week = TRUE]
           [] reminderType = "1day" -> [tbl EXCEPT ![eventId].reminder_sent_1day = TRUE]
           [] OTHER -> [tbl EXCEPT ![eventId].reminder_sent_dayof = TRUE]

\* the update without its WHERE clause: every situation is stamped
updateSituationReminderSentAll(tbl, situationId, now) ==
    [j \in DOMAIN tbl |-> [tbl[j] EXCEPT !.last_reminder_sent = Some(now)]]

\* UPDATE friend_situations SET last_reminder_sent = NOW() WHERE id = $1
updateSituationReminderSent(tbl, situationId, now) ==
    IF situationId \notin DOMAIN tbl THEN tbl
    ELSE [tbl EXCEPT ![situationId].last_reminder_sent = Some(now)]

---------------------------------------------------------------------------
(* Evaluators *)

\* The three milestone tests of the loop body, in source order
TimingOf(k) == <<"1week", "1day", "dayof">>[k]
LabelOf(k) == <<"1 week", "1 day", "today">>[k]
SubjectOf(k) ==
    <<"Event Reminder (1 Week)", "Event Reminder (Tomorrow!)", "Event Reminder (TODAY!)">>[k]

\* the 1-week test with >= in place of ===
MilestoneDueAtLeast(row, k, daysUntil) ==
    CASE k = 1 -> daysUntil >= 7 /\ ~row.reminder_sent_1week
      [] k = 2 -> daysUntil = 1 /\ ~row.reminder_sent_1day
      [] k = 3 -> daysUntil = 0 /\ ~row.reminder_sent_dayof

\* the milestone tests with <= in place of ===
MilestoneDueWithin(row, k, daysUntil) ==
    CASE k = 1 -> daysUntil <= 7 /\ ~row.reminder_sent_1week
      [] k = 2 -> daysUntil <= 1 /\ ~row.reminder_sent_1day
      [] k = 3 -> daysUntil <= 0 /\ ~row.reminder_sent_dayof

MilestoneDue(row, k, daysUntil) ==
    CASE k = 1 -> daysUntil = LeadWeek /\ ~row.reminder_sent_1week
      [] k = 2 -> daysUntil = LeadDay /\ ~row.reminder_sent_1day
      [] k = 3 -> daysUntil = LeadDayOf /\ ~row.reminder_sent_dayof

\* the switch with an acute interval of 0 days
reminderIntervalSameDay(severity, daysSinceStart) ==
    CASE severity = "high" -> IF daysSinceStart <= 14 THEN 0 ELSE 7
      [] severity = "medium" -> 7
      [] severity = "low" -> 14

\* the switch with the weekly cadence for every high-severity situation
reminderIntervalWeekly(severity, daysSinceStart) ==
    CASE severity = "high" -> 7
      [] severity = "medium" -> 7
      [] severity = "low" -> 14

\* switch (situation.severity)
reminderInterval(severity, daysSinceStart) ==
    CASE severity = "high" ->
            IF daysSinceStart <= AcuteDays THEN AcuteInterval ELSE WeeklyInterval
      [] severity = "medium" -> WeeklyInterval
      [] severity = "low" -> LowInterval

daysSinceLastReminder(row, now) ==
    IF IsNull(row.last_reminder_sent) THEN NeverSent
    ELSE getDaysSince(Val(row.last_reminder_sent), now)

SituationDue(row, now) ==
    daysSinceLastReminder(row, now) >=
        reminderInterval(row.severity, getDaysSince(DateTs(row.started_at), now))

---------------------------------------------------------------------------
(* Messages *)

\* the message with the day-of wording for every milestone
formatEventReminderToday(item, k) ==
    [kind |-> "event", ref |-> item.id, who |-> item.row.person_id,
     when |-> Val(item.row.event_date), timing |-> LabelOf(3)]

formatEventReminder(item, k) ==
    [kind |-> "event", ref |-> item.id, who |-> item.row.person_id,
     when |-> Val(item.row.event_date), timing |-> LabelOf(k)]

formatSituationReminder(item, now) ==
    [kind |-> "situation", ref |-> item.id, who |-> item.row.person_id,
     severity |-> item.row.severity,
     duration |-> getDaysSince(DateTs(item.row.started_at), now)]

\* the list passed on without the filter: both groups hold everybody
FilterNothing(snap, priority) == snap

\* people.filter(p => p.priority_level === priority)
FilterPriority(snap, priority) ==
    SelectSeq(snap, LAMBDA p : p.row.priority_level = priority)

formatLastContactReminder(group, priority) ==
    [kind |-> "last_contact", priority |-> priority,
     list |-> [j \in DOMAIN group |->
                  [who |-> group[j].id, last |-> group[j].row.last_contact_date]]]

\* sendEmailReminder without its try/catch: a refused send throws
sendEmailReminderUncaught(outcome) ==
    IF outcome = "rejected" THEN "threw" ELSE "returned"

\* sendEmailReminder: the try/catch swallows a rejected send, and a missing
\* API key returns early; the caller sees a normal return in every case.
sendEmailReminder(outcome) == "returned"

\* what the delivery collaborator has accepted
Accept(box, subject, message, outcome) ==
    IF outcome = "accepted"
    THEN box (+) SetToBag({[subject |-> subject, text |-> message]})
    ELSE box

---------------------------------------------------------------------------
(* The three pipelines of a tick.  A pipeline rests at an await:            *)
(*   read  the store query is pending                                       *)
(*   send  sendEmailReminder is pending for item i (milestone k)            *)
(*   log   logReminder is pending                                           *)
(*   mark  markEventReminderSent / updateSituationReminderSent is pending   *)
(* A pipeline that returns or throws is no longer running (idle): the      *)
(* rejection of Promise.all is caught and logged by the tick.               *)
(* sends lists the delivery attempts of the run so far with their result.   *)

Idle ==
    [pc |-> "idle", snap |-> <<>>, i |-> 0, k |-> 0, daysUntil |-> 0,
     message |-> NULL, sends |-> <<>>]

Reading == [Idle EXCEPT !.pc = "read"]

\* the pipeline returned
Returned(proc) == Idle

\* a rejection that no catch handles: it reaches the scheduler's callback
ThrewToScheduler(proc, call) == [Idle EXCEPT !.pc = "uncaught"]

\* the pipeline threw out of the named call
Threw(proc, call) == Idle

Running(proc) == proc.pc # "idle"

RECURSIVE EventLoop(_, _, _, _, _)
\* checkEventReminders: the for loop from test k of item i on, up to the
\* next await; daysUntil is the const computed when item i was entered.
EventLoop(proc, i, k, daysUntil, now) ==
    IF i > Len(proc.snap) THEN Returned(proc)
    ELSE IF IsNull(proc.snap[i].row.event_date) \/ k > 3 THEN
        IF i + 1 > Len(proc.snap) THEN Returned(proc)
        ELSE EventLoop(proc, i + 1, 1,
                 IF IsNull(proc.snap[i + 1].row.event_date) THEN 0
                 ELSE getDaysUntil(DateTs(Val(proc.snap[i + 1].row.event_date)), now),
                 now)
    ELSE IF MilestoneDue(proc.snap[i].row, k, daysUntil) THEN
        [proc EXCEPT !.pc = "send", !.i = i, !.k = k, !.daysUntil = daysUntil,
                     !.message = Some(formatEventReminder(proc.snap[i], k))]
    ELSE EventLoop(proc, i, k + 1, daysUntil, now)

\* the loop entered with a fresh snapshot
EventLoopStart(snap, now) ==
    LET proc == [Reading EXCEPT !.snap = snap]
    IN IF snap = <<>> THEN Returned(proc)
       ELSE EventLoop(proc, 1, 1,
                IF IsNull(snap[1].row.event_date) THEN 0
                ELSE getDaysUntil(DateTs(Val(snap[1].row.event_date)), now),
                now)

RECURSIVE SituationLoop(_, _, _)
\* checkSituationReminders: the for loop from item i on, up to the next await
SituationLoop(proc, i, now) ==
    IF i > Len(proc.snap) THEN Returned(proc)
    ELSE IF SituationDue(proc.snap[i].row, now) THEN
        [proc EXCEPT !.pc = "send", !.i = i,
                     !.message = Some(formatSituationReminder(proc.snap[i], now))]
    ELSE SituationLoop(proc, i + 1, now)

PriorityOf(g) == <<"high", "normal">>[g]
GroupSubject(g) == <<"Check In With Close Friends", "Check In With Friends">>[g]

RECURSIVE ContactGroups(_, _)
\* checkLastContactReminders: from the test of group g on (1 high, 2 normal),
\* up to the next await
ContactGroups(proc, g) ==
    IF g > 2 THEN Returned(proc)
    ELSE IF Len(FilterPriority(proc.snap, PriorityOf(g))) > 0 THEN
        [proc EXCEPT !.pc = "send", !.k = g, !.i = 0,
                     !.message = Some(formatLastContactReminder(
                                          FilterPriority(proc.snap, PriorityOf(g)),
                                          PriorityOf(g)))]
    ELSE ContactGroups(proc, g + 1)

\* the early return on people.length === 0, then the two groups
ContactStart(snap) ==
    IF Len(snap) = 0 THEN Returned(Reading)
    ELSE ContactGroups([Reading EXCEPT !.snap = snap], 1)

\* one delivery attempt recorded in the run's history
Attempt(proc, ref, outcome) ==
    Append(proc.sends, [ref |-> ref, k |-> proc.k, accepted |-> outcome = "accepted"])

---------------------------------------------------------------------------
(* Initial state: an empty store, no tick running *)

NoProbe == [fn |-> "none"]

\* a recording-complete request not yet received
NoRecording ==
    [pc |-> "idle", today |-> 0, newSummary |-> <<>>, finalSummary |-> <<>>]

Init ==
    /\ day = 0
    /\ cronFired = FALSE
    /\ people = <<>>
    /\ friend_events = <<>>
    /\ friend_situations = <<>>
    /\ reminder_log = EmptyBag
    /\ delivered = EmptyBag
    /\ evProc = [t \in Ticks |-> Idle]
    /\ sitProc = [t \in Ticks |-> Idle]
    /\ lcProc = [t \in Ticks |-> Idle]
    /\ probe = NoProbe
    /\ daily_summaries = <<>>
    /\ recProc = [r \in Recordings |-> NoRecording]

---------------------------------------------------------------------------
(* Environment: the calendar, the schedule, the store request *)

\* midnight passes; ticks still awaiting stay in flight
AdvanceDay ==
    /\ day < MaxDay
    /\ day' = day + 1
    /\ cronFired' = FALSE
    /\ UNCHANGED <<store, delivered, evProc, sitProc, lcProc, probe, summaries>>

SlotFree(t) ==
    evProc[t].pc = "idle" /\ sitProc[t].pc = "idle" /\ lcProc[t].pc = "idle"

\* cron.schedule('0 9 * * *'): checkAndSendFriendReminders() is called,
\* not awaited, with no test for a tick still running; Promise.all starts
\* the three pipelines, each up to its store query.
checkAndSendFriendReminders(t) ==
    /\ evProc' = [evProc EXCEPT ![t] = Reading]
    /\ sitProc' = [sitProc EXCEPT ![t] = Reading]
    /\ lcProc' = [lcProc EXCEPT ![t] = Reading]

CronFire ==
    /\ ~cronFired
    /\ cronFired' = TRUE
    /\ \E t \in Ticks :
          /\ SlotFree(t)
          /\ \A u \in Ticks : u < t => ~SlotFree(u)
          /\ checkAndSendFriendReminders(t)
    /\ UNCHANGED <<day, store, delivered, probe, summaries>>

\* an upsert that writes a fresh row over the person found
FindOrReplace(tbl, p) == (p :> createPerson("normal")) @@ tbl

\* findPersonByNameOrAlias, else createPerson
FindOrCreate(tbl, p) ==
    IF p \in DOMAIN tbl THEN tbl ELSE tbl @@ (p :> createPerson("normal"))

\* the people table written as if every mention were a contact
StorePersonAlways(tbl, p, mentioned_contact, today) ==
    updateLastContactDate(FindOrCreate(tbl, p), p, today)

\* the people table after handleStoreRequest has found or created person p
\* and, if (personExtractionResult.mentioned_contact), set the contact date
StorePerson(tbl, p, mentioned_contact, today) ==
    IF mentioned_contact
    THEN updateLastContactDate(FindOrCreate(tbl, p), p, today)
    ELSE FindOrCreate(tbl, p)

\* handleStoreRequest for one extracted person p: the person is found or
\* created, the contact date is set when mentioned_contact, then the events
\* and the situations of the extraction are inserted.
handleStoreRequest(p, mentioned_contact, events, situations) ==
    /\ Len(friend_events) + Len(events) <= NumEvents
    /\ Len(friend_situations) + Len(situations) <= NumSituations
    /\ people' = StorePerson(people, p, mentioned_contact, day)
    /\ friend_events' = friend_events \o
          [j \in DOMAIN events |-> createFriendEvent(p, events[j])]
    /\ friend_situations' = friend_situations \o
          [j \in DOMAIN situations |->
              createFriendSituation(p, situations[j].severity, situations[j].started_at)]
    /\ UNCHANGED <<day, cronFired, reminder_log, delivered, evProc, sitProc, lcProc, probe, summaries>>

\* seed script: upsert_priority_friend(name, aliases, relationship, 'high')
upsert_priority_friend(p) ==
    /\ people' = IF p \in DOMAIN people
                 THEN [people EXCEPT ![p].priority_level = "high"]
                 ELSE people @@ (p :> createPerson("high"))
    /\ UNCHANGED <<day, cronFired, friend_events, friend_situations, reminder_log,
                   delivered, evProc, sitProc, lcProc, probe, summaries>>

\* the external actor that closes a situation (status = 'resolved')
ResolveSituation(s) ==
    /\ s \in DOMAIN friend_situations
    /\ friend_situations[s].status = "active"
    /\ friend_situations' = [friend_situations EXCEPT ![s].status = "resolved"]
    /\ UNCHANGED <<day, cronFired, people, friend_events, reminder_log,
                   delivered, evProc, sitProc, lcProc, probe, summaries>>

---------------------------------------------------------------------------
(* checkEventReminders *)

EvRead(t) ==
    /\ evProc[t].pc = "read"
    /\ \/ \E snap \in getUpcomingEvents(friend_events, LookaheadDays, day) :
             evProc' = [evProc EXCEPT ![t] = EventLoopStart(snap, NowTs(day, CronHour))]
       \/ evProc' = [evProc EXCEPT ![t] = Threw(@, "getUpcomingEvents")]
    /\ UNCHANGED <<day, cronFired, store, delivered, sitProc, lcProc, probe, summaries>>

EvSend(t, outcome) ==
    LET proc == evProc[t]
        sent == [proc EXCEPT !.sends = Attempt(proc, proc.snap[proc.i].id, outcome)]
    IN /\ proc.pc = "send"
       /\ delivered' = Accept(delivered, SubjectOf(proc.k), Val(proc.message), outcome)
       /\ evProc' = [evProc EXCEPT ![t] =
                        IF sendEmailReminder(outcome) = "returned"
                        THEN [sent EXCEPT !.pc = "log"]
                        ELSE Threw(sent, "sendEmailReminder")]
       /\ UNCHANGED <<day, cronFired, store, sitProc, lcProc, probe, summaries>>

EvLog(t) ==
    LET proc == evProc[t]
        item == proc.snap[proc.i]
    IN /\ proc.pc = "log"
       /\ \/ /\ reminder_log' = logReminder(reminder_log, "event", item.row.person_id,
                                            Some(item.id), NULL, Val(proc.message))
             /\ evProc' = [evProc EXCEPT ![t].pc = "mark"]
          \/ /\ evProc' = [evProc EXCEPT ![t] = Threw(@, "logReminder")]
             /\ UNCHANGED reminder_log
       /\ UNCHANGED <<day, cronFired, people, friend_events, friend_situations,
                      delivered, sitProc, lcProc, probe, summaries>>

EvMark(t) ==
    LET proc == evProc[t]
        item == proc.snap[proc.i]
    IN /\ proc.pc = "mark"
       /\ \/ /\ friend_events' = markEventReminderSent(friend_events, item.id, TimingOf(proc.k))
             /\ evProc' = [evProc EXCEPT ![t] =
                              EventLoop(proc, proc.i, proc.k + 1, proc.daysUntil, NowTs(day, CronHour))]
          \/ /\ evProc' = [evProc EXCEPT ![t] = Threw(@, "markEventReminderSent")]
             /\ UNCHANGED friend_events
       /\ UNCHANGED <<day, cronFired, people, friend_situations, reminder_log,
                      delivered, sitProc, lcProc, probe, summaries>>

---------------------------------------------------------------------------
(* checkSituationReminders *)

SitRead(t) ==
    /\ sitProc[t].pc = "read"
    /\ \/ \E snap \in getActiveSituations(friend_situations) :
             sitProc' = [sitProc EXCEPT ![t] =
                            SituationLoop([Reading EXCEPT !.snap = snap], 1, NowTs(day, CronHour))]
       \/ sitProc' = [sitProc EXCEPT ![t] = Threw(@, "getActiveSituations")]
    /\ UNCHANGED <<day, cronFired, store, delivered, evProc, lcProc, probe, summaries>>

SitSend(t, outcome) ==
    LET proc == sitProc[t]
        sent == [proc EXCEPT !.sends = Attempt(proc, proc.snap[proc.i].id, outcome)]
    IN /\ proc.pc = "send"
       /\ delivered' = Accept(delivered, "Friend Support Reminder", Val(proc.message), outcome)
       /\ sitProc' = [sitProc EXCEPT ![t] =
                         IF sendEmailReminder(outcome) = "returned"
                         THEN [sent EXCEPT !.pc = "log"]
                         ELSE Threw(sent, "sendEmailReminder")]
       /\ UNCHANGED <<day, cronFired, store, evProc, lcProc, probe, summaries>>

SitLog(t) ==
    LET proc == sitProc[t]
        item == proc.snap[proc.i]
    IN /\ proc.pc = "log"
       /\ \/ /\ reminder_log' = logReminder(reminder_log, "situation", item.row.person_id,
                                            NULL, Some(item.id), Val(proc.message))
             /\ sitProc' = [sitProc EXCEPT ![t].pc = "mark"]
          \/ /\ sitProc' = [sitProc EXCEPT ![t] = Threw(@, "logReminder")]
             /\ UNCHANGED reminder_log
       /\ UNCHANGED <<day, cronFired, people, friend_events, friend_situations,
                      delivered, evProc, lcProc, probe, summaries>>

SitMark(t) ==
    LET proc == sitProc[t]
        item == proc.snap[proc.i]
    IN /\ proc.pc = "mark"
       /\ \/ /\ friend_situations' =
                   updateSituationReminderSent(friend_situations, item.id, NowTs(day, CronHour))
             /\ sitProc' = [sitProc EXCEPT ![t] =
                               SituationLoop(proc, proc.i + 1, NowTs(day, CronHour))]
          \/ /\ sitProc' = [sitProc EXCEPT ![t] = Threw(@, "updateSituationReminderSent")]
             /\ UNCHANGED friend_situations
       /\ UNCHANGED <<day, cronFired, people, friend_events, reminder_log,
                      delivered, evProc, lcProc, probe, summaries>>

---------------------------------------------------------------------------
(* checkLastContactReminders *)

LcRead(t) ==
    /\ lcProc[t].pc = "read"
    /\ \/ \E snap \in getPeopleNeedingContact(people, PriorityDays, NormalDays, day) :
             lcProc' = [lcProc EXCEPT ![t] = ContactStart(snap)]
       \/ lcProc' = [lcProc EXCEPT ![t] = Threw(@, "getPeopleNeedingContact")]
    /\ UNCHANGED <<day, cronFired, store, delivered, evProc, sitProc, probe, summaries>>

LcSend(t, outcome) ==
    LET proc == lcProc[t]
        sent == [proc EXCEPT !.sends = Attempt(proc, proc.k, outcome)]
    IN /\ proc.pc = "send"
       /\ delivered' = Accept(delivered, GroupSubject(proc.k), Val(proc.message), outcome)
       /\ lcProc' = [lcProc EXCEPT ![t] =
                        IF sendEmailReminder(outcome) = "returned"
                        THEN [sent EXCEPT !.pc = "log", !.i = 1]
                        ELSE Threw(sent, "sendEmailReminder")]
       /\ UNCHANGED <<day, cronFired, store, evProc, sitProc, probe, summaries>>

\* for (const person of group) await logReminder('last_contact', person.id, ...)
LcLog(t) ==
    LET proc == lcProc[t]
        group == FilterPriority(proc.snap, PriorityOf(proc.k))
    IN /\ proc.pc = "log"
       /\ \/ /\ reminder_log' = logReminder(reminder_log, "last_contact", group[proc.i].id,
                                            NULL, NULL, Val(proc.message))
             /\ lcProc' = [lcProc EXCEPT ![t] =
                              IF proc.i < Len(group) THEN [proc EXCEPT !.i = proc.i + 1]
                              ELSE ContactGroups(proc, proc.k + 1)]
          \/ /\ lcProc' = [lcProc EXCEPT ![t] = Threw(@, "logReminder")]
             /\ UNCHANGED reminder_log
       /\ UNCHANGED <<day, cronFired, people, friend_events, friend_situations,
                      delivered, evProc, sitProc, probe, summaries>>

---------------------------------------------------------------------------
(* The system.  An extraction holds, for one person, at most one event and  *)
(* at most one situation; the input sets below are what the specifications  *)
(* draw from.                                                               *)

Date(d) == Some(d)
Situation(sv, st) == [severity |-> sv, started_at |-> st]

TickSteps ==
    \/ AdvanceDay
    \/ CronFire
    \/ \E t \in Ticks : EvRead(t)
    \/ \E t \in Ticks : SitRead(t)
    \/ \E t \in Ticks : LcRead(t)

EventSteps ==
    \/ \E t \in Ticks, o \in SendOutcomes : EvSend(t, o)
    \/ \E t \in Ticks : EvLog(t)
    \/ \E t \in Ticks : EvMark(t)

SituationSteps ==
    \/ \E t \in Ticks, o \in SendOutcomes : SitSend(t, o)
    \/ \E t \in Ticks : SitLog(t)
    \/ \E t \in Ticks : SitMark(t)

ContactSteps ==
    \/ \E t \in Ticks, o \in SendOutcomes : LcSend(t, o)
    \/ \E t \in Ticks : LcLog(t)

\* what an extraction may hold for one person
EventInputs == {<<>>, <<NULL>>, <<Date(0)>>, <<Date(1)>>, <<Date(8)>>}
SituationInputs ==
    {<<>>, <<Situation("high", 0)>>, <<Situation("high", -20)>>,
     <<Situation("medium", 0)>>, <<Situation("low", 0)>>}

\* The whole system.  The specifications below restrict it to a family of
\* requests; each keeps every step the restricted system can take.
Next ==
    \/ TickSteps
    \/ EventSteps
    \/ SituationSteps
    \/ ContactSteps
    \/ \E p \in Persons, mc \in BOOLEAN, es \in EventInputs, ss \in SituationInputs :
          handleStoreRequest(p, mc, es, ss)
    \/ \E p \in Persons : upsert_priority_friend(p)
    \/ \E s \in 1..NumSituations : ResolveSituation(s)

Spec == Init /\ [][Next]_vars

\* Requests that mention events only (the contact is always mentioned, so
\* nobody is stale, and no situation exists).
NextEvents ==
    \/ TickSteps
    \/ EventSteps
    \/ \E es \in {<<NULL>>, <<Date(1)>>, <<Date(8)>>} :
          handleStoreRequest(1, TRUE, es, <<>>)

SpecEvents == Init /\ [][NextEvents]_vars

\* Requests that mention an acute situation only, and the actor that
\* resolves situations.
NextSituations ==
    \/ TickSteps
    \/ SituationSteps
    \/ handleStoreRequest(1, TRUE, <<>>, <<Situation("high", 0)>>)
    \/ \E s \in 1..NumSituations : ResolveSituation(s)

SpecSituations == Init /\ [][NextSituations]_vars

\* Requests that mention people only, and the priority seed.
NextContacts ==
    \/ TickSteps
    \/ ContactSteps
    \/ \E p \in Persons, mc \in BOOLEAN : handleStoreRequest(p, mc, <<>>, <<>>)
    \/ \E p \in Persons : upsert_priority_friend(p)

SpecContacts == Init /\ [][NextContacts]_vars

\* One calendar day of the whole system (a single tick, three pipelines).
NextDay ==
    \/ CronFire
    \/ \E t \in Ticks : EvRead(t)
    \/ \E t \in Ticks : SitRead(t)
    \/ \E t \in Ticks : LcRead(t)
    \/ EventSteps
    \/ SituationSteps
    \/ ContactSteps
    \/ \E mc \in BOOLEAN, es \in {<<>>, <<Date(0)>>, <<Date(1)>>},
          ss \in {<<>>, <<Situation("high", 0)>>, <<Situation("medium", 0)>>} :
          handleStoreRequest(1, mc, es, ss)

SpecDay == Init /\ [][NextDay]_vars

---------------------------------------------------------------------------
(* The evaluators on their own: one evaluation of a one-row table at a      *)
(* chosen day and hour.  due is the set of dispatch lists the pipeline can  *)
(* produce from its snapshot (one list per order of the query result).      *)

ProbeDays == 0..MaxProbeDay
ProbeHours == {9, 23}

RECURSIVE EventDispatches(_, _)
\* the (event, milestone) pairs checkEventReminders dispatches from proc on
EventDispatches(proc, now) ==
    IF proc.pc # "send" THEN <<>>
    ELSE <<[id |-> proc.snap[proc.i].id, timing |-> TimingOf(proc.k)]>> \o
         EventDispatches(EventLoop(proc, proc.i, proc.k + 1, proc.daysUntil, now), now)

EvaluateEvents(tbl, days, today, h) ==
    {EventDispatches(EventLoopStart(snap, NowTs(today, h)), NowTs(today, h)) :
        snap \in getUpcomingEvents(tbl, days, today)}

RECURSIVE SituationDispatches(_, _)
\* the situations checkSituationReminders dispatches from proc on
SituationDispatches(proc, now) ==
    IF proc.pc # "send" THEN <<>>
    ELSE <<proc.snap[proc.i].id>> \o
         SituationDispatches(SituationLoop(proc, proc.i + 1, now), now)

EvaluateSituations(tbl, today, h) ==
    {SituationDispatches(SituationLoop([Reading EXCEPT !.snap = snap], 1, NowTs(today, h)),
                         NowTs(today, h)) :
        snap \in getActiveSituations(tbl)}

\* the ids getPeopleNeedingContact selects
EvaluateContacts(tbl, today) ==
    {{snap[j].id : j \in DOMAIN snap} :
        snap \in getPeopleNeedingContact(tbl, PriorityDays, NormalDays, today)}

ProbeEvent ==
    \E date \in {NULL} \cup {Date(d) : d \in ProbeDays},
       w, d1, d0 \in BOOLEAN, today \in ProbeDays, h \in ProbeHours :
        LET row == [createFriendEvent(1, date) EXCEPT
                       !.reminder_sent_1week = w,
                       !.reminder_sent_1day = d1,
                       !.reminder_sent_dayof = d0]
        IN probe' = [fn |-> "event", row |-> row, today |-> today, hour |-> h,
                     due |-> EvaluateEvents(<<row>>, LookaheadDays, today, h)]

ProbeSituation ==
    \E sv \in Severities, st \in ProbeDays, today \in ProbeDays, h \in ProbeHours,
       last \in {NULL} \cup {Some(NowTs(d, lh)) : d \in ProbeDays, lh \in ProbeHours} :
        LET row == [createFriendSituation(1, sv, st) EXCEPT !.last_reminder_sent = last]
        IN /\ st <= today
           /\ ~IsNull(last) => Val(last) <= NowTs(today, h)
           /\ probe' = [fn |-> "situation", row |-> row, today |-> today, hour |-> h,
                        due |-> EvaluateSituations(<<row>>, today, h)]

ProbeContact ==
    \E pr \in {"high", "normal"}, today \in ProbeDays,
       last \in {NULL} \cup {Some(d) : d \in ProbeDays} :
        LET row == [createPerson(pr) EXCEPT !.last_contact_date = last]
        IN /\ ~IsNull(last) => Val(last) <= today
           /\ probe' = [fn |-> "contact", row |-> row, today |-> today, hour |-> 0,
                        due |-> EvaluateContacts(<<row>>, today)]

\* what an event row of a re-evaluation may hold: no date, or a date 0, 1,
\* 3 or 7 days after today, with any flags
RerunRows(today) ==
    {[createFriendEvent(1, date) EXCEPT
         !.reminder_sent_1week = w, !.reminder_sent_1day = d1, !.reminder_sent_dayof = d0] :
        date \in {NULL} \cup {Date(today + x) : x \in {0, 1, 3, 7}},
        w \in BOOLEAN, d1 \in BOOLEAN, d0 \in BOOLEAN}

\* the (event, milestone) pairs of a set of dispatch lists
Dispatched(lists) == UNION {{list[j] : j \in DOMAIN list} : list \in lists}

\* checkEventReminders evaluated on a two-row table at hour h, evaluated
\* again on the same table at hour h2 of the same day, and evaluated once
\* more after markEventReminderSent has committed one dispatch of the first
\* evaluation.
ProbeRerun ==
    \E today \in {0, 1}, h \in ProbeHours, h2 \in ProbeHours :
    \E r1 \in RerunRows(today), r2 \in RerunRows(today) :
        LET tbl == <<r1, r2>>
            first == EvaluateEvents(tbl, LookaheadDays, today, h)
        IN probe' = [fn |-> "rerun", tbl |-> tbl, today |-> today,
                     first |-> first,
                     again |-> EvaluateEvents(tbl, LookaheadDays, today, h2),
                     after |-> {[id |-> c.id, timing |-> c.timing,
                                 due |-> EvaluateEvents(
                                            markEventReminderSent(tbl, c.id, c.timing),
                                            LookaheadDays, today, h2)] :
                                   c \in Dispatched(first)}]

MaxLookahead == 16

\* the lookahead windows compared: below, at and above the 7 and the 14 days
Lookaheads == 6..MaxLookahead

\* what an event row of a window comparison may hold: no date, or a date
\* around today, around the 1-week lead and around the end of the window
WindowRows(today) ==
    {[createFriendEvent(1, date) EXCEPT
         !.reminder_sent_1week = w, !.reminder_sent_1day = d1, !.reminder_sent_dayof = d0] :
        date \in {NULL} \cup {Date(today + x) : x \in {-1, 0, 1, 6, 7, 8, 14, 15}},
        w \in BOOLEAN, d1 \in BOOLEAN, d0 \in BOOLEAN}

\* checkEventReminders evaluated on a two-row table with
\* getUpcomingEvents(days) for each window in Lookaheads
ProbeLookahead ==
    \E today \in {1, 2}, h \in ProbeHours :
    \E r1 \in WindowRows(today), r2 \in WindowRows(today) :
        probe' = [fn |-> "lookahead", tbl |-> <<r1, r2>>, today |-> today, hour |-> h,
                  due |-> [days \in Lookaheads |->
                              EvaluateEvents(<<r1, r2>>, days, today, h)]]

RECURSIVE ContactDispatches(_)
\* the messages checkLastContactReminders dispatches from proc on
ContactDispatches(proc) ==
    IF proc.pc # "send" THEN <<>>
    ELSE <<[subject |-> GroupSubject(proc.k), text |-> Val(proc.message)]>> \o
         ContactDispatches(ContactGroups(proc, proc.k + 1))

EvaluateGroups(tbl, today) ==
    {ContactDispatches(ContactStart(snap)) :
        snap \in getPeopleNeedingContact(tbl, PriorityDays, NormalDays, today)}

\* what a person row of a grouping may hold: either priority, never
\* contacted or last contacted 0, 14, 15, 28 or 29 days ago
GroupRows(today) ==
    {[createPerson(pr) EXCEPT !.last_contact_date = last] :
        pr \in {"high", "normal"},
        last \in {NULL} \cup {Some(today - x) : x \in {0, 14, 15, 28, 29}}}

\* checkLastContactReminders evaluated on a table of NumPersons + 1 people
ProbeGroups ==
    \E today \in {MaxProbeDay - 1, MaxProbeDay} :
    \E tbl \in [1..NumPersons + 1 -> GroupRows(today)] :
        probe' = [fn |-> "groups", tbl |-> tbl, today |-> today,
                  due |-> EvaluateGroups(tbl, today)]

\* the people tables a recorded contact may find: person 1 unknown, or known
\* with either priority, never contacted or last contacted 0, 20 or 40 days
\* before
RecordTables(today) ==
    {<<>>} \cup
    {<<[createPerson(pr) EXCEPT !.last_contact_date = last]>> :
        pr \in {"high", "normal"},
        last \in {NULL} \cup {Some(today - x) : x \in {0, 20, 40}}}

\* handleStoreRequest for person 1 on day today, then getPeopleNeedingContact
\* evaluated on day later
ProbeRecord ==
    \E today \in {0, 1}, mc \in BOOLEAN, ahead \in 0..MaxProbeDay :
    \E tbl \in RecordTables(today) :
        LET after == StorePerson(tbl, 1, mc, today)
        IN probe' = [fn |-> "record", before |-> tbl, mentioned_contact |-> mc,
                     today |-> today, after |-> after, later |-> today + ahead,
                     due |-> EvaluateContacts(after, today + ahead)]

NextEval ==
    /\ probe = NoProbe
    /\ \/ ProbeEvent
       \/ ProbeSituation
       \/ ProbeContact
       \/ ProbeRerun
       \/ ProbeLookahead
       \/ ProbeGroups
       \/ ProbeRecord
    /\ UNCHANGED <<day, cronFired, store, delivered, evProc, sitProc, lcProc, summaries>>

SpecEval == Init /\ [][NextEval]_vars

---------------------------------------------------------------------------
(* Properties *)

Flag(row, k) ==
    CASE k = 1 -> row.reminder_sent_1week
      [] k = 2 -> row.reminder_sent_1day
      [] k = 3 -> row.reminder_sent_dayof

\* accepted messages about milestone k of event e
EventMessages(e, k) ==
    {m \in BagToSet(delivered) :
        /\ m.text.kind = "event"
        /\ m.text.ref = e
        /\ m.text.timing = LabelOf(k)}

\* accepted messages about situation s
SituationMessages(s) ==
    {m \in BagToSet(delivered) : m.text.kind = "situation" /\ m.text.ref = s}

NoTickRunning ==
    \A t \in Ticks : ~Running(evProc[t]) /\ ~Running(sitProc[t]) /\ ~Running(lcProc[t])

\* C1: for every event e and milestone m, the delivery collaborator accepts
\* a notification for (e, m) at most once, whatever the ticks do.
C1_AtMostOncePerMilestone ==
    \A m \in BagToSet(delivered) :
        m.text.kind = "event" => CopiesIn(m, delivered) <= 1

\* C2: a latch is written only when its send succeeded: a milestone flag is
\* set only if a message for that milestone was accepted, and
\* last_reminder_sent is set only if a message for that situation was accepted.
C2_LatchOnlyAfterAcceptedSend ==
    /\ \A e \in DOMAIN friend_events : \A k \in 1..3 :
          Flag(friend_events[e], k) => EventMessages(e, k) # {}
    /\ \A s \in DOMAIN friend_situations :
          ~IsNull(friend_situations[s].last_reminder_sent) => SituationMessages(s) # {}

\* C3: once no tick is running, the reminder log holds exactly one row per
\* message the delivery collaborator accepted.
C3_OneLogRowPerAcceptedMessage ==
    NoTickRunning => BagCardinality(reminder_log) = BagCardinality(delivered)

\* C4: every event is created with its three milestone flags false, no event
\* is deleted, and a flag that is true stays true in every step.
C4_MilestoneLatch ==
    [][/\ DOMAIN friend_events \subseteq DOMAIN friend_events'
       /\ \A e \in DOMAIN friend_events' : \A k \in 1..3 :
             IF e \in DOMAIN friend_events
             THEN Flag(friend_events[e], k) => Flag(friend_events'[e], k)
             ELSE ~Flag(friend_events'[e], k)]_vars

\* an event whose 1-day flag was latched on an earlier day and whose day-of
\* reminder has since been latched too
C4_Witness ==
    \E e \in DOMAIN friend_events :
        /\ friend_events[e].reminder_sent_1day
        /\ friend_events[e].reminder_sent_dayof
        /\ ~friend_events[e].reminder_sent_1week

\* C5: for an event with an exact date, milestone 1week / 1day / dayof is
\* dispatched iff the date is 7 / 1 / 0 whole days after today and the flag
\* of that milestone is false; nothing is dispatched without an exact date.
C5_EventMilestoneDue ==
    probe.fn = "event" =>
        /\ probe.due # {}
        /\ \A list \in probe.due : \A k \in 1..3 :
              (\E j \in DOMAIN list : list[j].timing = TimingOf(k))
              <=> /\ ~IsNull(probe.row.event_date)
                  /\ Val(probe.row.event_date) - probe.today = <<7, 1, 0>>[k]
                  /\ ~Flag(probe.row, k)

\* an event dated today + 7 with sent_1week false: exactly the 1week milestone
C5_Witness ==
    /\ probe.fn = "event"
    /\ probe.row.event_date = Date(probe.today + 7)
    /\ ~probe.row.reminder_sent_1week
    /\ probe.hour = 23
    /\ probe.due = {<<[id |-> 1, timing |-> "1week"]>>}

\* the deliveries a tick's event pipeline has attempted or is attempting
Fired(proc) ==
    [j \in DOMAIN proc.sends |-> [ref |-> proc.sends[j].ref, k |-> proc.sends[j].k]] \o
    (IF proc.pc = "send" THEN <<[ref |-> proc.snap[proc.i].id, k |-> proc.k]>> ELSE <<>>)

\* C6: within one tick at most one milestone is dispatched for an event, and
\* an event 7 days out is dispatched as milestone 1week only.
C6_OneMilestonePerEventPerTick ==
    \A t \in Ticks :
        /\ \A a, b \in DOMAIN Fired(evProc[t]) :
              Fired(evProc[t])[a].ref = Fired(evProc[t])[b].ref => a = b
        /\ evProc[t].pc \in {"send", "log", "mark"} =>
              (evProc[t].daysUntil = 7 <=> evProc[t].k = 1)

\* a tick that dispatched the day-of reminder of one event and then the
\* 1-week reminder of another
C6_Witness ==
    \E t \in Ticks :
        /\ Len(evProc[t].sends) = 2
        /\ evProc[t].sends[1].k = 3
        /\ evProc[t].sends[2].k = 1
        /\ evProc[t].pc = "mark"

Pending(s) ==
    \E t \in Ticks :
        /\ sitProc[t].pc \in {"send", "log", "mark"}
        /\ \E j \in sitProc[t].i .. Len(sitProc[t].snap) : sitProc[t].snap[j].id = s

\* C8: once a situation is resolved, a tick that reads the store afterwards
\* never takes it up: no step puts it in a snapshot, sends for it, logs a row
\* for it or changes its last_reminder_sent; only a tick that had read it
\* while it was active can still act on it.
C8_ResolvedNeverEvaluated ==
    [][\A s \in DOMAIN friend_situations :
          (friend_situations[s].status = "resolved" /\ ~Pending(s)) =>
              /\ ~Pending(s)'
              /\ friend_situations'[s] = friend_situations[s]
              /\ \A r \in BagToSet(reminder_log') :
                    r.related_situation_id = Some(s) =>
                        CopiesIn(r, reminder_log') = CopiesIn(r, reminder_log)
              /\ \A m \in BagToSet(delivered') :
                    (m.text.kind = "situation" /\ m.text.ref = s) =>
                        CopiesIn(m, delivered') = CopiesIn(m, delivered)]_vars

\* situation 1 is resolved and a tick that read the store afterwards is
\* dispatching situation 2 alone
C8_Witness ==
    \E t \in Ticks :
        /\ sitProc[t].pc = "send"
        /\ Len(sitProc[t].snap) = 1
        /\ sitProc[t].snap[1].id = 2
        /\ friend_situations[1].status = "resolved"
        /\ IsNull(friend_situations[1].last_reminder_sent)

\* C9: a person is selected iff last_contact_date is null or strictly older
\* than today minus 14 days (high priority) or 28 days (normal priority).
C9_StalenessSelection ==
    probe.fn = "contact" =>
        LET threshold == IF probe.row.priority_level = "high" THEN 14 ELSE 28
            last == probe.row.last_contact_date
        IN /\ probe.due # {}
           /\ \A ids \in probe.due :
                 (ids # {}) <=> (IsNull(last) \/ Val(last) < probe.today - threshold)

\* a high-priority person last contacted 15 days ago is selected
C9_Witness ==
    /\ probe.fn = "contact"
    /\ probe.row.priority_level = "high"
    /\ probe.row.last_contact_date = Some(probe.today - 15)
    /\ probe.due = {{1}}

\* a pipeline leaves an await of sendEmailReminder for the logReminder of
\* the same item
SendContinues(p, q) ==
    (p.pc = "send" /\ q # p) =>
        /\ q.pc = "log"
        /\ q.snap = p.snap
        /\ q.k = p.k
        /\ Len(q.sends) = Len(p.sends) + 1

\* C10: whatever the outcome of a delivery call, the pipeline that made it
\* goes on with the same item and the other pipelines are left as they are:
\* a delivery failure never ends a pipeline or a tick.
C10_DeliveryFailureIsolated ==
    [][\A t \in Ticks :
          /\ SendContinues(evProc[t], evProc'[t])
          /\ SendContinues(sitProc[t], sitProc'[t])
          /\ SendContinues(lcProc[t], lcProc'[t])
          /\ delivered' # delivered =>
                Cardinality({u \in Ticks : evProc'[u] # evProc[u]}) +
                Cardinality({u \in Ticks : sitProc'[u] # sitProc[u]}) +
                Cardinality({u \in Ticks : lcProc'[u] # lcProc[u]}) = 1]_vars

\* a tick whose first event reminder was refused, whose second was accepted,
\* and whose situation pipeline had a reminder accepted as well
C10_Witness ==
    \E t \in Ticks :
        /\ Len(evProc[t].sends) = 2
        /\ ~evProc[t].sends[1].accepted
        /\ evProc[t].sends[2].accepted
        /\ Len(sitProc[t].sends) = 1
        /\ sitProc[t].sends[1].accepted

\* a store write of pipeline step p -> q failed or ended the pipeline
Ended(p, q) == p.pc \in {"log", "mark"} /\ q.pc = "idle"

\* C11: a failed store write aborts only the item in hand: a pipeline leaves
\* a logReminder / markEventReminderSent / updateSituationReminderSent call
\* for idle only when no later item of its snapshot is due.
C11_StoreFailureAbortsItemOnly ==
    [][\A t \in Ticks :
          /\ Ended(evProc[t], evProc'[t]) =>
                EventLoop(evProc[t], evProc[t].i, 4, evProc[t].daysUntil,
                          NowTs(day, CronHour)).pc = "idle"
          /\ Ended(sitProc[t], sitProc'[t]) =>
                SituationLoop(sitProc[t], sitProc[t].i + 1,
                              NowTs(day, CronHour)).pc = "idle"]_vars

\* the ticks in progress
TicksInProgress == {t \in Ticks : ~SlotFree(t)}

\* C12: ticks are mutually exclusive: at most one tick of
\* checkAndSendFriendReminders is in progress in every reachable state.
C12_TicksMutuallyExclusive == Cardinality(TicksInProgress) <= 1

---------------------------------------------------------------------------
(* A delivery call that never returns.  sendEmailReminder awaits             *)
(* sendgrid.send with no timeout: when the promise never settles the         *)
(* pipeline stays at that await ("hung") and no step of it is enabled.       *)

EvHang(t) ==
    /\ evProc[t].pc = "send"
    /\ evProc' = [evProc EXCEPT ![t].pc = "hung"]
    /\ UNCHANGED <<day, cronFired, store, delivered, sitProc, lcProc, probe, summaries>>

\* the continuations of one day's tick: each runs once its await settles
TickProgress ==
    \/ \E t \in Ticks : EvRead(t)
    \/ \E t \in Ticks : SitRead(t)
    \/ \E t \in Ticks : LcRead(t)
    \/ EventSteps

NextHang ==
    \/ CronFire
    \/ TickProgress
    \/ \E t \in Ticks : EvHang(t)
    \/ \E es \in {<<Date(0)>>, <<Date(1)>>} : handleStoreRequest(1, TRUE, es, <<>>)

\* One day of the event pipeline with a delivery collaborator that may hang;
\* a continuation whose await has settled is eventually run.
SpecHang == Init /\ [][NextHang]_vars /\ WF_vars(TickProgress)

\* C13: every tick eventually finishes, also when a delivery call never
\* returns (the call is cut off by a timeout and the tick goes on).
C13_TickEventuallyFinishes ==
    \A t \in Ticks : (~SlotFree(t)) ~> SlotFree(t)

---------------------------------------------------------------------------
(* Properties, continued *)

\* the awaits a pipeline can rest at
Awaits == {"idle", "read", "send", "log", "mark"}

\* C14: no failure escapes a tick: whatever store reads, store writes and
\* deliveries fail, every pipeline is idle or at one of its awaits (a
\* rejection ends the pipeline inside the tick's catch), and the schedule
\* can start the day's tick whenever it has not fired yet.
C14_NoFailureEscapes ==
    /\ \A t \in Ticks :
          /\ evProc[t].pc \in Awaits
          /\ sitProc[t].pc \in Awaits
          /\ lcProc[t].pc \in Awaits
    /\ (~cronFired /\ \E t \in Ticks : SlotFree(t)) => ENABLED CronFire

\* both days' ticks sent their reminder, failed at logReminder and are
\* over, and the schedule has started the tick of day 1
C14_Witness ==
    /\ day = 1
    /\ cronFired
    /\ NoTickRunning
    /\ EventMessages(1, 2) # {}
    /\ EventMessages(1, 3) # {}
    /\ reminder_log = EmptyBag

\* person row is stale on day today
Stale(row, today) ==
    \/ IsNull(row.last_contact_date)
    \/ Val(row.last_contact_date) <
          today - (IF row.priority_level = "high" THEN 14 ELSE 28)

\* the message of the person's priority group that a pipeline with
\* snapshot snap dispatches lists person p
ListedIn(snap, p) ==
    LET g == IF people[p].priority_level = "high" THEN 1 ELSE 2
        proc == ContactGroups([Reading EXCEPT !.snap = snap], g)
    IN /\ proc.pc = "send"
       /\ proc.k = g
       /\ \E j \in DOMAIN Val(proc.message).list : Val(proc.message).list[j].who = p

\* C15: a stale person has no latch: whatever reminders earlier ticks sent
\* and logged, a tick that reads the people now selects every person who is
\* stale and dispatches a staleness message that lists that person.
C15_StaleRenotifiedEveryTick ==
    \A t \in Ticks : \A p \in DOMAIN people :
        (lcProc[t].pc = "read" /\ Stale(people[p], day)) =>
            \A snap \in getPeopleNeedingContact(people, PriorityDays, NormalDays, day) :
                /\ \E j \in DOMAIN snap : snap[j].id = p
                /\ ListedIn(snap, p)

\* the tick of day 1 is sending a reminder that lists person 1, for whom
\* the tick of day 0 already sent a reminder and logged it
C15_Witness ==
    \E t \in Ticks :
        /\ day = 1
        /\ lcProc[t].pc = "send"
        /\ \E j \in DOMAIN Val(lcProc[t].message).list :
              Val(lcProc[t].message).list[j].who = 1
        /\ \E r \in BagToSet(reminder_log) :
              r.reminder_type = "last_contact" /\ r.person_id = 1
        /\ \E m \in BagToSet(delivered) :
              /\ m.text.kind = "last_contact"
              /\ \E j \in DOMAIN m.text.list : m.text.list[j].who = 1
        /\ \A u \in Ticks : u # t => SlotFree(u)

\* C16: last_contact_date never regresses: no person is deleted, and in
\* every step a date that is set stays set and does not decrease.
C16_LastContactMonotone ==
    [][/\ DOMAIN people \subseteq DOMAIN people'
       /\ \A p \in DOMAIN people :
             ~IsNull(people[p].last_contact_date) =>
                 /\ ~IsNull(people'[p].last_contact_date)
                 /\ Val(people'[p].last_contact_date) >= Val(people[p].last_contact_date)]_vars

\* on day 1, person 1 was last contacted today and person 2 on day 0
C16_Witness ==
    /\ day = 1
    /\ DOMAIN people = {1, 2}
    /\ people[1].last_contact_date = Some(1)
    /\ people[2].last_contact_date = Some(0)

\* C17: the evaluator is idempotent on unchanged state: two evaluations of
\* the same table on the same day dispatch the same (event, milestone)
\* pairs, as many, and once markEventReminderSent has committed one of them,
\* an evaluation of the updated table dispatches the others and not that one.
C17_EvaluatorIdempotent ==
    probe.fn = "rerun" =>
        /\ probe.first # {} /\ probe.again # {}
        /\ \A l1 \in probe.first : \A l2 \in probe.again :
              /\ Len(l1) = Len(l2)
              /\ Dispatched({l1}) = Dispatched({l2})
        /\ \A a \in probe.after : \A l \in a.due :
              Dispatched({l}) =
                  Dispatched(probe.first) \ {[id |-> a.id, timing |-> a.timing]}

\* one event tomorrow and one in a week, both undelivered: both are
\* dispatched, twice over, and after the 1-day flag of the first is
\* committed only the 1-week reminder of the second is
C17_Witness ==
    /\ probe.fn = "rerun"
    /\ probe.first = {<<[id |-> 1, timing |-> "1day"], [id |-> 2, timing |-> "1week"]>>}
    /\ probe.again = probe.first
    /\ [id |-> 1, timing |-> "1day",
        due |-> {<<[id |-> 2, timing |-> "1week"]>>}] \in probe.after

\* the number of rows of bag B that satisfy Test
CountIn(B, Test(_)) ==
    LET S == {x \in BagToSet(B) : Test(x)}
        RECURSIVE Sum(_)
        Sum(T) == IF T = {} THEN 0
                  ELSE LET x == CHOOSE y \in T : TRUE
                       IN CopiesIn(x, B) + Sum(T \ {x})
    IN Sum(S)

\* C18: end to end for an event one day ahead with sent_1day false: when
\* the 1-day flag is committed after an accepted delivery, the tick has sent
\* exactly one message for the event, with subject "Tomorrow!" and label
\* "1 day", the other two flags are unchanged, and the log holds exactly one
\* row, of category event, referring to the event.
C18_OneDayEndToEnd ==
    [][\A e \in DOMAIN friend_events :
          (~friend_events[e].reminder_sent_1day /\ friend_events'[e].reminder_sent_1day) =>
              \E t \in Ticks :
                  LET proc == evProc[t]
                  IN /\ proc.pc = "mark" /\ proc.k = 2 /\ proc.daysUntil = 1
                     /\ proc.snap[proc.i].id = e
                     /\ friend_events'[e].reminder_sent_1week = friend_events[e].reminder_sent_1week
                     /\ friend_events'[e].reminder_sent_dayof = friend_events[e].reminder_sent_dayof
                     /\ proc.sends[Len(proc.sends)].accepted =>
                           /\ CountIn(delivered',
                                  LAMBDA m : m.text.kind = "event" /\ m.text.ref = e) = 1
                           /\ CountIn(delivered',
                                  LAMBDA m : /\ m.subject = "Event Reminder (Tomorrow!)"
                                             /\ m.text.kind = "event" /\ m.text.ref = e
                                             /\ m.text.timing = "1 day") = 1
                           /\ CountIn(reminder_log',
                                  LAMBDA r : r.related_event_id = Some(e)) = 1
                           /\ CountIn(reminder_log',
                                  LAMBDA r : /\ r.related_event_id = Some(e)
                                             /\ r.reminder_type = "event"
                                             /\ r.message_sent.timing = "1 day") = 1]_vars

\* the tick is over: one accepted "1 day" message and one log row for
\* event 1, whose 1-day flag alone is set
C18_Witness ==
    /\ NoTickRunning
    /\ Len(friend_events) = 1
    /\ friend_events[1].reminder_sent_1day
    /\ ~friend_events[1].reminder_sent_1week
    /\ ~friend_events[1].reminder_sent_dayof
    /\ BagCardinality(delivered) = 1
    /\ EventMessages(1, 2) # {}
    /\ BagCardinality(reminder_log) = 1

---------------------------------------------------------------------------
(* One tick on a recorded store.  The three pipelines run one after the     *)
(* other, each to its end, as operators on the tables; the tick of the       *)
(* system runs them interleaved.                                             *)

RECURSIVE RunEvents(_, _, _, _)
\* checkEventReminders from proc on: the events table and the log it leaves
RunEvents(proc, tbl, log, now) ==
    IF proc.pc # "send" THEN [tbl |-> tbl, log |-> log]
    ELSE LET item == proc.snap[proc.i]
         IN RunEvents(EventLoop(proc, proc.i, proc.k + 1, proc.daysUntil, now),
                      markEventReminderSent(tbl, item.id, TimingOf(proc.k)),
                      logReminder(log, "event", item.row.person_id, Some(item.id), NULL,
                                  Val(proc.message)),
                      now)

RECURSIVE RunSituations(_, _, _, _)
\* checkSituationReminders from proc on
RunSituations(proc, tbl, log, now) ==
    IF proc.pc # "send" THEN [tbl |-> tbl, log |-> log]
    ELSE LET item == proc.snap[proc.i]
         IN RunSituations(SituationLoop(proc, proc.i + 1, now),
                          updateSituationReminderSent(tbl, item.id, now),
                          logReminder(log, "situation", item.row.person_id, NULL,
                                      Some(item.id), Val(proc.message)),
                          now)

RECURSIVE LogGroup(_, _, _, _)
\* for (const person of group) await logReminder(...), from member j on
LogGroup(log, group, j, message) ==
    IF j > Len(group) THEN log
    ELSE LogGroup(logReminder(log, "last_contact", group[j].id, NULL, NULL, message),
                  group, j + 1, message)

RECURSIVE RunContacts(_, _)
\* checkLastContactReminders from proc on: the log it leaves
RunContacts(proc, log) ==
    IF proc.pc # "send" THEN log
    ELSE RunContacts(ContactGroups(proc, proc.k + 1),
                     LogGroup(log, FilterPriority(proc.snap, PriorityOf(proc.k)), 1,
                              Val(proc.message)))

\* the stores the three pipelines can leave when run in turn on store s
Sequential(s, today, now) ==
    {LET ev == RunEvents(EventLoopStart(es, now), s[2], s[4], now)
         sit == RunSituations(SituationLoop([Reading EXCEPT !.snap = ss], 1, now),
                              s[3], ev.log, now)
     IN <<s[1], ev.tbl, sit.tbl, RunContacts(ContactStart(ps), sit.log)>> :
        es \in getUpcomingEvents(s[2], LookaheadDays, today),
        ss \in getActiveSituations(s[3]),
        ps \in getPeopleNeedingContact(s[1], PriorityDays, NormalDays, today)}

\* the schedule fires; the store the tick starts on is recorded
TickStart ==
    /\ ~cronFired
    /\ cronFired' = TRUE
    /\ checkAndSendFriendReminders(1)
    /\ probe' = [fn |-> "tick", start |-> store]
    /\ UNCHANGED <<day, store, delivered, summaries>>

\* the step is not one in which a store call of a pipeline failed
StoreCallsSucceed ==
    \A t \in Ticks :
        /\ (evProc[t].pc = "read" /\ evProc'[t] # evProc[t]) =>
              \E snap \in getUpcomingEvents(friend_events, LookaheadDays, day) :
                  evProc'[t] = EventLoopStart(snap, NowTs(day, CronHour))
        /\ (sitProc[t].pc = "read" /\ sitProc'[t] # sitProc[t]) =>
              \E snap \in getActiveSituations(friend_situations) :
                  sitProc'[t] = SituationLoop([Reading EXCEPT !.snap = snap], 1,
                                              NowTs(day, CronHour))
        /\ (lcProc[t].pc = "read" /\ lcProc'[t] # lcProc[t]) =>
              \E snap \in getPeopleNeedingContact(people, PriorityDays, NormalDays, day) :
                  lcProc'[t] = ContactStart(snap)
        /\ (evProc[t].pc = "log" /\ evProc'[t] # evProc[t]) => reminder_log' # reminder_log
        /\ (sitProc[t].pc = "log" /\ sitProc'[t] # sitProc[t]) => reminder_log' # reminder_log
        /\ (lcProc[t].pc = "log" /\ lcProc'[t] # lcProc[t]) => reminder_log' # reminder_log
        /\ (evProc[t].pc = "mark" /\ evProc'[t] # evProc[t]) =>
              friend_events' # friend_events
        /\ (sitProc[t].pc = "mark" /\ sitProc'[t] # sitProc[t]) =>
              friend_situations' # friend_situations

TickOutcomes == {"accepted", "rejected"}

\* The store is filled by requests, then one tick runs on it with store
\* calls that succeed and deliveries that are accepted or refused.
NextTick ==
    \/ /\ ~cronFired
       /\ \/ \E mc \in BOOLEAN, es \in {<<>>, <<Date(0)>>, <<Date(1)>>},
                ss \in {<<>>, <<Situation("high", 0)>>, <<Situation("medium", 0)>>} :
                handleStoreRequest(1, mc, es, ss)
          \/ \E mc \in BOOLEAN : handleStoreRequest(2, mc, <<>>, <<>>)
          \/ upsert_priority_friend(1)
    \/ TickStart
    \/ /\ \/ \E t \in Ticks : EvRead(t)
          \/ \E t \in Ticks : SitRead(t)
          \/ \E t \in Ticks : LcRead(t)
          \/ \E t \in Ticks, o \in TickOutcomes : EvSend(t, o)
          \/ \E t \in Ticks : EvLog(t)
          \/ \E t \in Ticks : EvMark(t)
          \/ \E t \in Ticks, o \in TickOutcomes : SitSend(t, o)
          \/ \E t \in Ticks : SitLog(t)
          \/ \E t \in Ticks : SitMark(t)
          \/ \E t \in Ticks, o \in TickOutcomes : LcSend(t, o)
          \/ \E t \in Ticks : LcLog(t)
       /\ StoreCallsSucceed

SpecTick == Init /\ [][NextTick]_vars

\* C19: the three pipelines tolerate interleaving: when the tick is over,
\* whatever the order of the steps of its pipelines and whatever the
\* delivery outcomes, the store (flags, last_reminder_sent, the bag of log
\* rows, the people) is one the pipelines leave when run one after the other
\* on the store the tick started on.
C19_InterleavingConfluent ==
    (probe.fn = "tick" /\ NoTickRunning) =>
        store \in Sequential(probe.start, day, NowTs(day, CronHour))

\* a finished tick in which each of the three pipelines wrote: an event
\* flag, a last_reminder_sent, and log rows of the three categories
C19_Witness ==
    /\ probe.fn = "tick"
    /\ NoTickRunning
    /\ \E e \in DOMAIN friend_events : friend_events[e].reminder_sent_dayof
    /\ \E s \in DOMAIN friend_situations : ~IsNull(friend_situations[s].last_reminder_sent)
    /\ \A c \in {"event", "situation", "last_contact"} :
          \E r \in BagToSet(reminder_log) : r.reminder_type = c
    /\ BagCardinality(delivered) < BagCardinality(reminder_log)

\* row with milestone flag k set
WithFlag(row, k) ==
    CASE k = 1 -> [row EXCEPT !.reminder_sent_1week = TRUE]
      [] k = 2 -> [row EXCEPT !.reminder_sent_1day = TRUE]
      [] k = 3 -> [row EXCEPT !.reminder_sent_dayof = TRUE]

\* C20: each latch write is scoped to one entity: a step that changes an
\* existing event sets one milestone flag of one event and nothing else in
\* the events, the situations or the people; a step that changes an existing
\* situation changes last_reminder_sent of one situation and nothing else.
C20_LatchWriteScoped ==
    [][/\ (Len(friend_events') = Len(friend_events) /\ friend_events' # friend_events) =>
             /\ \E e \in DOMAIN friend_events : \E k \in 1..3 :
                   /\ ~Flag(friend_events[e], k)
                   /\ friend_events' = [friend_events EXCEPT ![e] = WithFlag(@, k)]
             /\ UNCHANGED <<people, friend_situations>>
       /\ (Len(friend_situations') = Len(friend_situations)
              /\ friend_situations' # friend_situations) =>
             /\ \E s \in DOMAIN friend_situations :
                   /\ ~IsNull(friend_situations'[s].last_reminder_sent)
                   /\ friend_situations' =
                         [friend_situations EXCEPT
                             ![s].last_reminder_sent = friend_situations'[s].last_reminder_sent]
             /\ UNCHANGED <<people, friend_events>>]_vars

\* one of two events has one flag committed and the other none; one of two
\* situations has its reminder committed and the other not yet
C20_Witness ==
    /\ Len(friend_events) = 2
    /\ Len(friend_situations) = 2
    /\ \E e \in 1..2 :
          /\ Cardinality({k \in 1..3 : Flag(friend_events[e], k)}) = 1
          /\ \A k \in 1..3 : ~Flag(friend_events[3 - e], k)
    /\ \E s \in 1..2 :
          /\ ~IsNull(friend_situations[s].last_reminder_sent)
          /\ IsNull(friend_situations[3 - s].last_reminder_sent)

---------------------------------------------------------------------------
(* Events that are already past, or whose milestone day has gone by, when   *)
(* they are stored.                                                         *)

\* Requests that mention an event dated day 0 or day 1, over both days.
NextMissed ==
    \/ TickSteps
    \/ EventSteps
    \/ \E es \in {<<Date(0)>>, <<Date(1)>>} : handleStoreRequest(1, TRUE, es, <<>>)

SpecMissed == Init /\ [][NextMissed]_vars

\* the pipeline step p -> q takes up a dispatch (it reaches the await of
\* sendEmailReminder for an item and a milestone)
TakesUp(p, q) == q.pc = "send" /\ q # p

\* C21: a missed milestone is never caught up: a tick takes up the
\* notification of milestone k of an event only on the day that is 7, 1 or 0
\* days before the event date, never on a later day, and it takes up nothing
\* for an event whose date is in the past.
C21_MissedMilestoneNeverCaughtUp ==
    [][\A t \in Ticks :
          TakesUp(evProc[t], evProc'[t]) =>
              LET item == evProc'[t].snap[evProc'[t].i]
              IN /\ Val(item.row.event_date) >= day
                 /\ Val(item.row.event_date) - day = <<7, 1, 0>>[evProc'[t].k]]_vars

\* day 1 is over for the tick: event 1 was dated day 0 and got nothing, and
\* event 2, dated day 1 and stored too late for its 1-day reminder, got the
\* day-of reminder only
C21_Witness ==
    /\ day = 1
    /\ cronFired
    /\ NoTickRunning
    /\ Len(friend_events) = 2
    /\ friend_events[1].event_date = Date(0)
    /\ friend_events[2].event_date = Date(1)
    /\ \A k \in 1..3 : ~Flag(friend_events[1], k) /\ EventMessages(1, k) = {}
    /\ friend_events[2].reminder_sent_dayof
    /\ ~friend_events[2].reminder_sent_1day
    /\ EventMessages(2, 3) # {}
    /\ EventMessages(2, 2) = {}

---------------------------------------------------------------------------
(* Properties, continued *)

\* log rows of category event about milestone k of event e
EventLogRows(e, k) ==
    {r \in BagToSet(reminder_log) :
        /\ r.reminder_type = "event"
        /\ r.related_event_id = Some(e)
        /\ r.message_sent.timing = LabelOf(k)}

\* log rows of category situation about situation s
SituationLogRows(s) ==
    {r \in BagToSet(reminder_log) :
        r.reminder_type = "situation" /\ r.related_situation_id = Some(s)}

\* C22: the log row and the latch of a notification are committed together:
\* once no tick is running, whatever store writes failed, a log row of
\* category event exists for milestone k of event e iff flag k of e is true,
\* and a log row of category situation exists for situation s iff
\* last_reminder_sent of s is set.
C22_LogAndLatchTogether ==
    NoTickRunning =>
        /\ \A e \in DOMAIN friend_events : \A k \in 1..3 :
              (EventLogRows(e, k) # {}) <=> Flag(friend_events[e], k)
        /\ \A s \in DOMAIN friend_situations :
              (SituationLogRows(s) # {}) <=>
                  ~IsNull(friend_situations[s].last_reminder_sent)

\* C23: the 14-day lookahead is not a correctness boundary: on every table
\* and day, the dispatches computed with a window of 14 days are those
\* computed with any window of 7 days or more, and no event more than 14
\* days out is dispatched.
C23_LookaheadNotBoundary ==
    probe.fn = "lookahead" =>
        /\ \A days \in Lookaheads :
              days >= 7 => probe.due[days] = probe.due[LookaheadDays]
        /\ \A list \in probe.due[LookaheadDays] : \A j \in DOMAIN list :
              Val(probe.tbl[list[j].id].event_date) - probe.today <= 14

\* one event 7 days out and one 8 days out, both undelivered: the 1-week
\* reminder of the first is dispatched with the window of 7 days, of 14 days
\* and of 16 days, and not with the window of 6 days
C23_Witness ==
    /\ probe.fn = "lookahead"
    /\ probe.tbl[1].event_date = Date(probe.today + 7)
    /\ probe.tbl[2].event_date = Date(probe.today + 8)
    /\ probe.due[7] = {<<[id |-> 1, timing |-> "1week"]>>}
    /\ probe.due[14] = probe.due[7]
    /\ probe.due[MaxLookahead] = probe.due[7]
    /\ probe.due[6] = {<<>>}

\* C24: an event without an exact date never produces a notification: no
\* pipeline holds it as the item of a dispatch, no message about it is
\* accepted, no log row refers to it and none of its flags is set.
C24_UndatedEventNeverNotified ==
    \A e \in DOMAIN friend_events :
        IsNull(friend_events[e].event_date) =>
            /\ \A k \in 1..3 : ~Flag(friend_events[e], k)
            /\ \A m \in BagToSet(delivered) : ~(m.text.kind = "event" /\ m.text.ref = e)
            /\ \A r \in BagToSet(reminder_log) : r.related_event_id # Some(e)
            /\ \A t \in Ticks :
                  evProc[t].pc \in {"send", "log", "mark"} =>
                      evProc[t].snap[evProc[t].i].id # e

\* the tick of day 1 is over: event 1 has no date and got nothing, event 2,
\* stored after it and dated day 1, got its day-of reminder, logged and
\* latched
C24_Witness ==
    /\ day = 1
    /\ NoTickRunning
    /\ Len(friend_events) = 2
    /\ IsNull(friend_events[1].event_date)
    /\ friend_events[2].event_date = Date(1)
    /\ friend_events[2].reminder_sent_dayof
    /\ EventMessages(2, 3) # {}
    /\ EventLogRows(2, 3) # {}

\* the severities by urgency
SeverityRank(s) ==
    CASE s = "high" -> 3
      [] s = "medium" -> 2
      [] s = "low" -> 1

\* C25: a tick evaluates the active situations in severity-descending order
\* (all high before all medium before all low) and, within one severity,
\* by ascending start date.
C25_SeverityDescendingOrder ==
    \A t \in Ticks : \A a, b \in DOMAIN sitProc[t].snap :
        a < b =>
            LET x == sitProc[t].snap[a].row
                y == sitProc[t].snap[b].row
            IN \/ SeverityRank(x.severity) > SeverityRank(y.severity)
               \/ x.severity = y.severity /\ x.started_at <= y.started_at

\* the stale persons of table tbl with the priority of group g
StaleGroup(tbl, g, today) ==
    {p \in DOMAIN tbl : tbl[p].priority_level = PriorityOf(g) /\ Stale(tbl[p], today)}

\* C26: staleness reminders are grouped by priority and never merged: a tick
\* dispatches at most two staleness messages, the message of a priority is
\* dispatched iff a person of that priority is stale, it has the subject of
\* its group and lists exactly the stale persons of that priority, each
\* once, so every stale person is in exactly one message.
C26_StalenessGroupedByPriority ==
    probe.fn = "groups" =>
        /\ probe.due # {}
        /\ \A msgs \in probe.due :
              /\ Len(msgs) <= 2
              /\ \A a, b \in DOMAIN msgs :
                    msgs[a].text.priority = msgs[b].text.priority => a = b
              /\ \A g \in 1..2 :
                    /\ (\E j \in DOMAIN msgs : msgs[j].text.priority = PriorityOf(g))
                          <=> StaleGroup(probe.tbl, g, probe.today) # {}
                    /\ \A j \in DOMAIN msgs :
                          msgs[j].text.priority = PriorityOf(g) =>
                              /\ msgs[j].subject = GroupSubject(g)
                              /\ {msgs[j].text.list[n].who : n \in DOMAIN msgs[j].text.list}
                                    = StaleGroup(probe.tbl, g, probe.today)
                              /\ Len(msgs[j].text.list)
                                    = Cardinality(StaleGroup(probe.tbl, g, probe.today))

\* person 1 is a close friend last contacted 15 days ago, person 2 a friend
\* never contacted, person 3 a friend contacted 28 days ago: one message
\* for close friends listing person 1, then one for friends listing person 2
C26_Witness ==
    /\ probe.fn = "groups"
    /\ probe.tbl[1] = [priority_level |-> "high", last_contact_date |-> Some(probe.today - 15)]
    /\ probe.tbl[2] = [priority_level |-> "normal", last_contact_date |-> NULL]
    /\ probe.tbl[3] = [priority_level |-> "normal", last_contact_date |-> Some(probe.today - 28)]
    /\ \E msgs \in probe.due :
          /\ Len(msgs) = 2
          /\ msgs[1].subject = "Check In With Close Friends"
          /\ msgs[1].text.list = <<[who |-> 1, last |-> Some(probe.today - 15)]>>
          /\ msgs[2].subject = "Check In With Friends"
          /\ msgs[2].text.list = <<[who |-> 2, last |-> NULL]>>

\* C27: whenever a milestone flag of an event is true, a log row of category
\* event that refers to the event (and to that milestone) exists: the row is
\* written before the flag, also when a write fails between the two.
C27_LogRowBeforeFlag ==
    \A e \in DOMAIN friend_events : \A k \in 1..3 :
        Flag(friend_events[e], k) => EventLogRows(e, k) # {}

\* the ticks are over: event 1 has its 1-day flag and its log row; event 2
\* has a log row and no flag, its markEventReminderSent having failed
C27_Witness ==
    /\ NoTickRunning
    /\ Len(friend_events) = 2
    /\ friend_events[1].reminder_sent_1day
    /\ EventLogRows(1, 2) # {}
    /\ \A k \in 1..3 : ~Flag(friend_events[2], k)
    /\ \E k \in 1..3 : EventLogRows(2, k) # {}

---------------------------------------------------------------------------
(* Situations of every severity over two days. *)

\* Requests that mention a situation of any severity, started on day 0.
NextRepeat ==
    \/ TickSteps
    \/ SituationSteps
    \/ \E sv \in Severities : handleStoreRequest(1, TRUE, <<>>, <<Situation(sv, 0)>>)

SpecRepeat == Init /\ [][NextRepeat]_vars

\* the calendar day of a timestamp
DayOf(ts) == ts \div HoursPerDay

\* C28: a situation gets at most one reminder per calendar day from ticks
\* that do not overlap: a tick never takes up a situation whose row, as the
\* tick read it, carries a last_reminder_sent of the current day, whatever
\* the severity.  (Two ticks that both read the row before either commits
\* both send: the witness.)
C28_OneSituationReminderPerDay ==
    [][\A t \in Ticks :
          TakesUp(sitProc[t], sitProc'[t]) =>
              LET row == sitProc'[t].snap[sitProc'[t].i].row
              IN \/ IsNull(row.last_reminder_sent)
                 \/ DayOf(Val(row.last_reminder_sent)) < day]_vars

\* two ticks read situation 1 before either committed and both had their
\* message accepted; one has committed last_reminder_sent today, the other
\* is about to
C28_Witness ==
    \E t, u \in Ticks :
        /\ t # u
        /\ sitProc[t].pc = "mark" /\ sitProc[t].snap[sitProc[t].i].id = 1
        /\ sitProc[t].sends[Len(sitProc[t].sends)].accepted
        /\ sitProc[u].pc = "send" /\ sitProc[u].i = 2
        /\ sitProc[u].sends[1].ref = 1
        /\ sitProc[u].sends[1].accepted
        /\ friend_situations[1].last_reminder_sent = Some(NowTs(day, CronHour))

\* C29: recording a contact clears staleness: after a store request with
\* mentioned_contact = true the person's last_contact_date is today and the
\* person is not selected by getPeopleNeedingContact today or on any of the
\* following 14 days (high priority) or 28 days (normal priority); a request
\* with mentioned_contact = false leaves last_contact_date as it was (NULL
\* for a person it creates).
C29_ContactClearsStaleness ==
    probe.fn = "record" =>
        LET row == probe.after[1]
            threshold == IF row.priority_level = "high" THEN 14 ELSE 28
        IN /\ probe.due # {}
           /\ probe.mentioned_contact =>
                 /\ row.last_contact_date = Some(probe.today)
                 /\ probe.later - probe.today <= threshold =>
                       \A ids \in probe.due : 1 \notin ids
           /\ ~probe.mentioned_contact =>
                 row.last_contact_date =
                     IF 1 \in DOMAIN probe.before
                     THEN probe.before[1].last_contact_date
                     ELSE NULL

\* a close friend last contacted 40 days ago is recorded as contacted
\* today: on day today + 14 the person is not selected
C29_Witness ==
    /\ probe.fn = "record"
    /\ probe.mentioned_contact
    /\ probe.before = <<[priority_level |-> "high",
                         last_contact_date |-> Some(probe.today - 40)]>>
    /\ probe.after[1].last_contact_date = Some(probe.today)
    /\ probe.later = probe.today + 14
    /\ probe.due = {{}}

---------------------------------------------------------------------------
(* The recording-complete webhook.  A summary is a text of paragraphs,       *)
(* modelled as the sequence of the recordings whose generated summary it     *)
(* holds; the summary generated for recording r is <<r>>.  The handler       *)
(* answers Twilio at once and goes on in the background; it rests at its     *)
(* awaits:                                                                   *)
(*   extract   download, transcription, voice entry, person extraction       *)
(*   generate  generateDailySummary is pending                               *)
(*   read      getDailySummary is pending                                    *)
(*   upsert    upsertDailySummary is pending                                 *)
(* and ends stored (the upsert returned) or failed (the catch logged).       *)
(* The voice entries and the person updates it writes are not modelled.      *)

\* SELECT summary FROM daily_summaries WHERE date = $1;
\* result.rows[0]?.summary || null
getDailySummary(tbl, date) ==
    IF date \in DOMAIN tbl /\ tbl[date] # <<>> THEN Some(tbl[date]) ELSE NULL

\* INSERT ... ON CONFLICT (date) DO UPDATE SET summary = EXCLUDED.summary
upsertDailySummary(tbl, date, summary) ==
    (date :> summary) @@ tbl

\* existingSummary ? `${existingSummary}\n\n${newSummary}` : newSummary
AppendSummary(existingSummary, newSummary) ==
    IF ~IsNull(existingSummary) THEN Val(existingSummary) \o newSummary
    ELSE newSummary

\* the handler threw at an await: the catch logs and the request is over
RecFailed(r) ==
    /\ recProc[r].pc \in {"extract", "generate", "read", "upsert"}
    /\ recProc' = [recProc EXCEPT ![r].pc = "failed"]
    /\ UNCHANGED <<day, cronFired, store, delivered, evProc, sitProc, lcProc, probe,
                   daily_summaries>>

\* POST /twilio/recording-complete: 200 is answered, processing starts
RecordingComplete(r) ==
    /\ recProc[r].pc = "idle"
    /\ recProc' = [recProc EXCEPT ![r].pc = "extract"]
    /\ UNCHANGED <<day, cronFired, store, delivered, evProc, sitProc, lcProc, probe,
                   daily_summaries>>

\* steps 4 and 5: the extracted people (nobody, or person 1) are found or
\* created; last_contact_date is not written on this route
RecPeople(r, ps) ==
    /\ recProc[r].pc = "extract"
    /\ people' = IF ps = {} THEN people ELSE FindOrCreate(people, 1)
    /\ recProc' = [recProc EXCEPT ![r].pc = "generate"]
    /\ UNCHANGED <<day, cronFired, friend_events, friend_situations, reminder_log,
                   delivered, evProc, sitProc, lcProc, probe, daily_summaries>>

\* step 6 returns the summary of the recording; today is taken from the
\* clock and getDailySummary(today) is called
RecGenerate(r) ==
    /\ recProc[r].pc = "generate"
    /\ recProc' = [recProc EXCEPT ![r].pc = "read",
                                  ![r].newSummary = <<r>>,
                                  ![r].today = day]
    /\ UNCHANGED <<day, cronFired, store, delivered, evProc, sitProc, lcProc, probe,
                   daily_summaries>>

\* getDailySummary returns; finalSummary is built and upsertDailySummary
\* is called
RecRead(r) ==
    /\ recProc[r].pc = "read"
    /\ recProc' = [recProc EXCEPT
                      ![r].pc = "upsert",
                      ![r].finalSummary =
                          AppendSummary(getDailySummary(daily_summaries, recProc[r].today),
                                        recProc[r].newSummary)]
    /\ UNCHANGED <<day, cronFired, store, delivered, evProc, sitProc, lcProc, probe,
                   daily_summaries>>

\* upsertDailySummary returns
RecUpsert(r) ==
    /\ recProc[r].pc = "upsert"
    /\ daily_summaries' = upsertDailySummary(daily_summaries, recProc[r].today,
                                             recProc[r].finalSummary)
    /\ recProc' = [recProc EXCEPT ![r].pc = "stored"]
    /\ UNCHANGED <<day, cronFired, store, delivered, evProc, sitProc, lcProc, probe>>

NextSummary ==
    \/ AdvanceDay
    \/ \E r \in Recordings : RecordingComplete(r)
    \/ \E r \in Recordings, ps \in {{}, {1}} : RecPeople(r, ps)
    \/ \E r \in Recordings : RecGenerate(r)
    \/ \E r \in Recordings : RecRead(r)
    \/ \E r \in Recordings : RecUpsert(r)
    \/ \E r \in Recordings : RecFailed(r)

SpecSummary == Init /\ [][NextSummary]_vars

\* the recordings whose generated summary is in text
Holds(text) == {text[j] : j \in DOMAIN text}

\* C30: the daily summary of a date is appended to, never overwritten: the
\* stored summary of a date holds the summary generated for every recording
\* whose processing stored its summary under that date, however the
\* handlers interleave.
C30_SummaryAppendedNeverOverwritten ==
    \A r \in Recordings :
        recProc[r].pc = "stored" =>
            /\ recProc[r].today \in DOMAIN daily_summaries
            /\ r \in Holds(daily_summaries[recProc[r].today])

============================================================================
